---- MODULE Spec2Model ----
(***************************************************************************)
(* A model of the parse-math crate: the lexer (src/src/lexer.rs), the      *)
(* operator table and the shunting-yard parser (src/src/shuntingyard.rs)   *)
(* and the AST nodes they build (src/src/ast.rs).                          *)
(*                                                                         *)
(* A text is a sequence of characters; a character is a one-element TLA+   *)
(* string, except "nbsp" (U+00A0, whitespace, two bytes in UTF-8) and      *)
(* "u0663" (ARABIC-INDIC DIGIT THREE, matched by \d, two bytes).           *)
(* The recursive descent of the parser is an explicit call stack of        *)
(* frames; one action is one straight-line piece of a function between two *)
(* calls.                                                                  *)
(***************************************************************************)
EXTENDS Integers, Sequences, FiniteSets, TLC

(***************************************************************************)
(* Bounds of the model.                                                    *)
(***************************************************************************)
\* Longest text drawn freely from Alphabet.
MaxLen == 3
\* Most binary operators in a generated operator chain.
MaxChain == 2
\* Most operators in a generated chain of the operator ^.
MaxPow == 4
\* Most calls of next_token a user of a lexer makes.
MaxCalls == 5

----------------------------------------------------------------------------
(***************************************************************************)
(* Characters.                                                             *)
(***************************************************************************)
AsciiDigits == {"0", "1", "2", "3", "4", "5", "6", "7", "8", "9"}

DigitVal(c) ==
    CASE c = "0" -> 0 [] c = "1" -> 1 [] c = "2" -> 2 [] c = "3" -> 3
      [] c = "4" -> 4 [] c = "5" -> 5 [] c = "6" -> 6 [] c = "7" -> 7
      [] c = "8" -> 8 [] c = "9" -> 9

\* char::is_whitespace
is_whitespace(c) == c \in {" ", "nbsp"}

\* Number of bytes of the character's UTF-8 encoding.
len_utf8(c) == IF c \in {"nbsp", "u0663"} THEN 2 ELSE 1

\* The class \d of the regex crate (Unicode decimal digits).
IsRegexDigit(c) == c \in AsciiDigits \cup {"u0663"}

\* The class [a-zA-Z], as far as the model's characters go.
IsAlpha(c) == c \in {"a", "e", "E", "g", "l", "o", "x", "y", "z"}

OPS_SINGLE == {"+", "-", "*", "/", "^", "!", "=", "(", ")"}

\* Byte length of a text.
RECURSIVE ByteLen(_)
ByteLen(s) == IF s = <<>> THEN 0 ELSE len_utf8(Head(s)) + ByteLen(Tail(s))

\* s without its first n characters.
Drop(s, n) == SubSeq(s, n + 1, Len(s))
\* The first n characters of s.
Take(s, n) == SubSeq(s, 1, n)

----------------------------------------------------------------------------
(***************************************************************************)
(* Errors (src/src/error.rs).  A message is a sequence of strings, the     *)
(* pieces the format strings put together.                                 *)
(***************************************************************************)
NoError == [kind |-> "None", msg |-> <<>>]
LexError(m) == [kind |-> "Lex", msg |-> m]
ParseErr(m) == [kind |-> "Parse", msg |-> m]
FloatError == [kind |-> "Float", msg |-> <<"invalid float literal">>]

\* Error::description
description(err) == err.msg

----------------------------------------------------------------------------
(***************************************************************************)
(* 64-bit float values of number literals: m * 10^e with m not divisible   *)
(* by 10 (0 is m = 0, e = 0), infinite above f64's range.  The texts of    *)
(* the model have far fewer than the 15 significant digits f64 keeps.      *)
(***************************************************************************)
RECURSIVE Normalize(_, _)
Normalize(m, e) ==
    IF m = 0 THEN [m |-> 0, e |-> 0, inf |-> FALSE]
    ELSE IF m % 10 = 0 THEN Normalize(m \div 10, e + 1)
    ELSE [m |-> m, e |-> e, inf |-> FALSE]

RECURSIVE DigitsVal(_, _)
\* Horner: the value of a digit string, continuing from acc.
DigitsVal(s, acc) ==
    IF s = <<>> THEN acc ELSE DigitsVal(Tail(s), 10 * acc + DigitVal(Head(s)))

RECURSIVE NumDigits(_)
NumDigits(m) == IF m < 10 THEN 1 ELSE 1 + NumDigits(m \div 10)

\* Number of leading characters of s that satisfy the regex class \d.
RECURSIVE DigitRun(_)
DigitRun(s) ==
    IF s # <<>> /\ IsRegexDigit(Head(s)) THEN 1 + DigitRun(Tail(s)) ELSE 0

RECURSIVE AlphaRun(_)
AlphaRun(s) ==
    IF s # <<>> /\ IsAlpha(Head(s)) THEN 1 + AlphaRun(Tail(s)) ELSE 0

\* <f64 as FromStr>::from_str on a text that REGEX_NUMBER matched:
\* [sign] digits [. digits] [e digits].  An empty result is Err.
from_str(s) ==
    LET sg   == IF s # <<>> /\ Head(s) \in {"+", "-"} THEN 1 ELSE 0
        neg  == sg = 1 /\ Head(s) = "-"
        body == Drop(s, sg)
        ni   == DigitRun(body)
        r1   == Drop(body, ni)
        dot  == r1 # <<>> /\ Head(r1) = "."
        r2   == IF dot THEN Tail(r1) ELSE r1
        nf   == IF dot THEN DigitRun(r2) ELSE 0
        r3   == Drop(r2, nf)
        ex   == IF r3 = <<>> THEN <<>> ELSE Tail(r3)
        ascii == \A i \in 1..Len(s) : IsRegexDigit(s[i]) => s[i] \in AsciiDigits
        mant == DigitsVal(Take(r2, nf), DigitsVal(Take(body, ni), 0))
        v    == Normalize(mant, DigitsVal(ex, 0) - nf)
    IN  IF ~ascii THEN <<>>
        ELSE IF v.m # 0 /\ v.e + NumDigits(v.m) - 1 > 308
             THEN << [m |-> IF neg THEN -1 ELSE 1, e |-> 0, inf |-> TRUE] >>
        ELSE << [v EXCEPT !.m = IF neg THEN -(v.m) ELSE v.m] >>

NoNum == [m |-> 0, e |-> 0, inf |-> FALSE]

----------------------------------------------------------------------------
(***************************************************************************)
(* Tokens (src/src/lexer.rs).                                              *)
(***************************************************************************)
\* TokenType values
TNumber(v) == [typ |-> "Number", num |-> v, str |-> <<>>, ch |-> ""]
TIdent(s) == [typ |-> "Ident", num |-> NoNum, str |-> s, ch |-> ""]
TOpSingle(c) == [typ |-> "OpSingle", num |-> NoNum, str |-> <<>>, ch |-> c]
TEnd == [typ |-> "End", num |-> NoNum, str |-> <<>>, ch |-> ""]

\* Token { typ, pos }
Token(tt, p) == [typ |-> tt, pos |-> p]

\* Display of an f64 value, as the pieces of its decimal form.
FmtNum(v) ==
    IF v.inf THEN <<"inf">> ELSE <<ToString(v.m), "e", ToString(v.e)>>

\* {:?} of a TokenType (derive(Debug)).
DebugTokenType(tt) ==
    CASE tt.typ = "Number" -> <<"Number(">> \o FmtNum(tt.num) \o <<")">>
      [] tt.typ = "Ident" -> <<"Ident(">> \o tt.str \o <<")">>
      [] tt.typ = "OpSingle" -> <<"OpSingle(", tt.ch, ")">>
      [] tt.typ = "End" -> <<"End">>

\* {:?} of a Token (derive(Debug)).
DebugToken(t) ==
    <<"Token { typ: ">> \o DebugTokenType(t.typ)
        \o <<", pos: ", ToString(t.pos), " }">>

----------------------------------------------------------------------------
(***************************************************************************)
(* The lexer.  A lexer is [text, pos, error]: the text still to scan, the  *)
(* position counter and the sticky error (<<>> is None, <<m>> is Some(m)). *)
(* A call returns [kind, tok, err, lexer]: kind "Ok" with the token,       *)
(* "Err" with the error, or "Panic"; lexer is the lexer after the call.    *)
(* pos is a u32; the texts of the model are far too short to wrap it.      *)
(***************************************************************************)
\* Lexer::new
Lexer_new(t) == [text |-> t, pos |-> 0, error |-> <<>>]

NoToken == Token(TEnd, 0)
LexOk(t, lx) == [kind |-> "Ok", tok |-> t, err |-> NoError, lexer |-> lx]
LexErr(e, lx) == [kind |-> "Err", tok |-> NoToken, err |-> e, lexer |-> lx]
LexPanic(lx) == [kind |-> "Panic", tok |-> NoToken,
                 err |-> [kind |-> "Panic",
                          msg |-> <<"byte index 1 is not a char boundary">>],
                 lexer |-> lx]

\* REGEX_NUMBER.find(text): the number of characters of the match of
\* ^[+-]?\d+(?:\.\d*)?(?:[eE]\d+)? at the start of s, 0 when there is none.
REGEX_NUMBER(s) ==
    LET sg  == IF s # <<>> /\ Head(s) \in {"+", "-"} THEN 1 ELSE 0
        b   == Drop(s, sg)
        ni  == DigitRun(b)
        r1  == Drop(b, ni)
        nf  == IF r1 # <<>> /\ Head(r1) = "." THEN 1 + DigitRun(Tail(r1)) ELSE 0
        r2  == Drop(r1, nf)
        ne  == IF r2 # <<>> /\ Head(r2) \in {"e", "E"} /\ DigitRun(Tail(r2)) > 0
               THEN 1 + DigitRun(Tail(r2)) ELSE 0
    IN  IF ni = 0 THEN 0 ELSE sg + ni + nf + ne

\* REGEX_IDENT.find(text): the length of the match of ^[a-zA-Z]+, 0 for none.
REGEX_IDENT(s) == AlphaRun(s)

\* The whitespace loop of next_token_: the lexer after skipping, or a panic
\* when text[1..] cuts a multi-byte whitespace character.
RECURSIVE skip_whitespace(_)
skip_whitespace(lx) ==
    IF lx.text = <<>> \/ ~is_whitespace(Head(lx.text))
    THEN [panic |-> FALSE, lexer |-> lx]
    ELSE IF len_utf8(Head(lx.text)) > 1
    THEN [panic |-> TRUE, lexer |-> lx]
    ELSE skip_whitespace([lx EXCEPT !.text = Tail(@), !.pos = @ + 1])

\* next_token_ on a text whose first character ch is not whitespace:
\* n and k are the lengths REGEX_NUMBER and REGEX_IDENT match.
scan_token(lx, ch, n, k) ==
    IF ch \in OPS_SINGLE
    THEN LexOk(Token(TOpSingle(ch), lx.pos),
               [lx EXCEPT !.text = Tail(@), !.pos = @ + 1])
    ELSE IF n > 0
    THEN (LET v == from_str(Take(lx.text, n))
          IN  IF v = <<>> THEN LexErr(FloatError, lx)
              ELSE LexOk(Token(TNumber(v[1]), lx.pos),
                         [lx EXCEPT !.text = Drop(@, n),
                                    !.pos = @ + ByteLen(Take(lx.text, n))]))
    ELSE IF k > 0
    THEN LexOk(Token(TIdent(Take(lx.text, k)), lx.pos),
               [lx EXCEPT !.text = Drop(@, k),
                          !.pos = @ + ByteLen(Take(lx.text, k))])
    ELSE LexErr(LexError(<<"Unexpected '", ch, "' at position ",
                           ToString(lx.pos)>>), lx)

\* next_token_ counting the end of the text as one more character.
scan_end_advances(sk) ==
    IF sk.panic THEN LexPanic(sk.lexer)
    ELSE IF sk.lexer.text = <<>>
    THEN LexOk(Token(TEnd, sk.lexer.pos), [sk.lexer EXCEPT !.pos = @ + 1])
    ELSE scan_token(sk.lexer, Head(sk.lexer.text), REGEX_NUMBER(sk.lexer.text),
                    REGEX_IDENT(sk.lexer.text))

\* next_token_ after its whitespace loop.
scan(sk) ==
    IF sk.panic THEN LexPanic(sk.lexer)
    ELSE IF sk.lexer.text = <<>> THEN LexOk(Token(TEnd, sk.lexer.pos), sk.lexer)
    ELSE scan_token(sk.lexer, Head(sk.lexer.text), REGEX_NUMBER(sk.lexer.text),
                    REGEX_IDENT(sk.lexer.text))

\* Lexer::next_token_
next_token_(lx) == scan(skip_whitespace(lx))

ErroredPreviously == "Errored previously: "

\* next_token: what it does with the result of next_token_.
poison(res) ==
    IF res.kind = "Err"
    THEN [res EXCEPT !.lexer.error =
                        << <<ErroredPreviously>> \o description(res.err) >>]
    ELSE res

\* next_token that scans again whatever happened before.
next_token_rescans(lx) == poison(next_token_(lx))

\* Lexer::next_token
next_token(lx) ==
    IF lx.error # <<>>
    THEN LexErr(LexError(lx.error[1]), lx)
    ELSE poison(next_token_(lx))

\* Option<Result<Token, ParseError>>: what next returns, with the lexer it
\* left.  A panic of next_token is a panic of next.
None(lx) == [opt |-> "None", kind |-> "Ok", tok |-> NoToken, err |-> NoError,
             lexer |-> lx]
Some(r) == [opt |-> IF r.kind = "Panic" THEN "Panic" ELSE "Some",
            kind |-> r.kind, tok |-> r.tok, err |-> r.err, lexer |-> r.lexer]

\* <Lexer as Iterator>::next: the match on what next_token returned.
Lexer_next_matched(r) ==
    IF r.kind = "Ok" /\ r.tok.typ = TEnd THEN None(r.lexer) ELSE Some(r)

\* <Lexer as Iterator>::next without its test of the marker.
Lexer_next_no_marker_test(lx) == Lexer_next_matched(next_token(lx))

\* <Lexer as Iterator>::next
Lexer_next(lx) ==
    IF lx.error # <<>> THEN None(lx) ELSE Lexer_next_matched(next_token(lx))

\* <Iter as Iterator>::next, on the lexer the Iter refers to.
Iter_next(lx) == Lexer_next(lx)

----------------------------------------------------------------------------
(***************************************************************************)
(* Operators (src/src/shuntingyard.rs).                                    *)
(***************************************************************************)
Op(c, t, p, a) == [ch |-> c, typ |-> t, prec |-> p, assoc |-> a]

SENTINEL == Op("", "Sentinel", 0, "Left")

OPS == <<
    Op("+", "Binary", 1, "Left"),
    Op("-", "Binary", 1, "Left"),
    Op("*", "Binary", 2, "Left"),
    Op("/", "Binary", 2, "Left"),
    Op("-", "Prefix", 3, "Left"),
    Op("!", "Postfix", 4, "Left"),
    Op("^", "Binary", 5, "Right") >>

\* is_sentinel(self.op_stack.last()): false for None.
is_sentinel(ops) == ops # <<>> /\ ops[Len(ops)].op.typ = "Sentinel"

\* get_op: the first entry of OPS with this character and type, as an Option.
get_op(op_char, typ) ==
    LET hits == {i \in 1..Len(OPS) : OPS[i].ch = op_char /\ OPS[i].typ = typ}
    IN  IF hits = {} THEN <<>>
        ELSE << OPS[CHOOSE i \in hits : \A j \in hits : i <= j] >>

\* has_greater_prec without its comparison of precedences.
has_greater_prec_unordered(op1, op2) == op1.prec = op2.prec /\ op1.assoc = "Left"

\* has_greater_prec without its test of associativity.
has_greater_prec_no_assoc(op1, op2) == op1.prec >= op2.prec

has_greater_prec(op1, op2) ==
    op1.prec > op2.prec \/ (op1.prec = op2.prec /\ op1.assoc = "Left")

----------------------------------------------------------------------------
(***************************************************************************)
(* AST nodes (src/src/ast.rs): AstNode::new(typ, pos) for each AstType.    *)
(***************************************************************************)
Number(v, p) ==
    [typ |-> "Number", num |-> v, name |-> <<>>, ch |-> "", args |-> <<>>, pos |-> p]
Ident(s, p) ==
    [typ |-> "Ident", num |-> NoNum, name |-> s, ch |-> "", args |-> <<>>, pos |-> p]
Func(s, t, p) ==
    [typ |-> "Func", num |-> NoNum, name |-> s, ch |-> "", args |-> <<t>>, pos |-> p]
Binary(c, t0, t1, p) ==
    [typ |-> "Binary", num |-> NoNum, name |-> <<>>, ch |-> c, args |-> <<t0, t1>>, pos |-> p]
Prefix(c, t, p) ==
    [typ |-> "Prefix", num |-> NoNum, name |-> <<>>, ch |-> c, args |-> <<t>>, pos |-> p]
Postfix(c, t, p) ==
    [typ |-> "Postfix", num |-> NoNum, name |-> <<>>, ch |-> c, args |-> <<t>>, pos |-> p]
Parens(t, p) ==
    [typ |-> "Parens", num |-> NoNum, name |-> <<>>, ch |-> "", args |-> <<t>>, pos |-> p]

----------------------------------------------------------------------------
(***************************************************************************)
(* The state of one call of parse.                                         *)
(*   input      the text handed to parse                                   *)
(*   lexer, next, op_stack, exp_stack   the fields of ShuntingYard         *)
(*   stack      the call stack: frames [fn, pc, op, pos, name], top last   *)
(*   ret        what the function that returned last returned              *)
(*   result     what parse returned: None (still running), Ok, Err, Panic  *)
(*   prev       the caller's record of its previous call of parse          *)
(*   results    what the calls of next_token (or of Iterator::next) by a   *)
(*              direct user of the lexer returned so far, each with the    *)
(*              lexer it left                                              *)
(*   lexer_clone, results_clone   a clone of the lexer, and what the calls *)
(*              of next on its Iter returned so far                        *)
(*   scopes     history: for each sentinel of op_stack, the height of      *)
(*              exp_stack when the sentinel was pushed                     *)
(***************************************************************************)
VARIABLES input, lexer, next, op_stack, exp_stack, stack, ret, result, prev,
          results, lexer_clone, results_clone, scopes

vars == <<input, lexer, next, op_stack, exp_stack, stack, ret, result, prev,
          results, lexer_clone, results_clone, scopes>>

Last(s) == s[Len(s)]
Front(s) == SubSeq(s, 1, Len(s) - 1)

Frame(f, p) == [fn |-> f, pc |-> p, op |-> SENTINEL, pos |-> 0, name |-> <<>>]

\* Result<_, ParseError> values returned by the functions of the parser.
OkUnit == [kind |-> "Ok", err |-> NoError, node |-> <<>>]
OkNode(t) == [kind |-> "Ok", err |-> NoError, node |-> <<t>>]
Err(e) == [kind |-> "Err", err |-> e, node |-> <<>>]
NoResult == [kind |-> "None", err |-> NoError, node |-> <<>>]
PanicResult(m) ==
    [kind |-> "Panic", err |-> [kind |-> "Panic", msg |-> m], node |-> <<>>]

UnwrapNone == <<"called Option::unwrap() on a None value">>

\* The parser's state as one record, which the step operators below map to
\* the state after the step.
St == [lexer |-> lexer, next |-> next, op_stack |-> op_stack,
       exp_stack |-> exp_stack, stack |-> stack, ret |-> ret, result |-> result]

\* A panic unwinds the whole call stack.
DoPanic(s, m) == [s EXCEPT !.stack = <<>>, !.result = PanicResult(m)]
\* parse returns r to its caller.
Finish(s, r) == [s EXCEPT !.stack = <<>>, !.result = r]
\* The running function returns r.
DoReturn(s, r) == [s EXCEPT !.stack = Front(@), !.ret = r]
\* The running function moves to pc.
DoGoto(s, p) == [s EXCEPT !.stack[Len(s.stack)].pc = p]
\* The running function calls a function (frame f) and continues at pc.
DoCall(s, p, f) == [DoGoto(s, p) EXCEPT !.stack = Append(@, f)]

\* consume, given the result r of next_token: the token is stored in next.
\* What consume returns is left in ret.
consumed(s, r) ==
    IF r.kind = "Panic" THEN DoPanic([s EXCEPT !.lexer = r.lexer], r.err.msg)
    ELSE IF r.kind = "Err" THEN [s EXCEPT !.lexer = r.lexer, !.ret = Err(r.err)]
    ELSE [s EXCEPT !.lexer = r.lexer, !.next = r.tok, !.ret = OkUnit]

\* ShuntingYard::consume
consume(s) == consumed(s, next_token(s.lexer))

\* ShuntingYard::expect
expect(s, token_type) ==
    IF s.next.typ = token_type
    THEN consume(s)
    ELSE [s EXCEPT !.ret = Err(ParseErr(
            <<"Expected ">> \o DebugTokenType(token_type)
              \o <<" of expression, but got ">> \o DebugTokenType(s.next.typ)
              \o <<" at position ", ToString(s.next.pos)>>))]

\* try!(..) on a call that left c: the call failed (or panicked).
Failed(c) == c.result.kind # "None" \/ c.ret.kind = "Err"
\* try!(..) on a failed call: the running function returns the error.
Try(c) == IF c.result.kind # "None" THEN c ELSE DoReturn(c, c.ret)

\* ShuntingYard::match_starting_parens
match_starting_parens(s) == s.next.typ = TOpSingle("(")

\* A call of parse_e: it starts by calling parse_p.
Call_parse_e(s, p) ==
    DoCall(DoCall(s, p, Frame("parse_e", "loop")), "loop", Frame("parse_p", "start"))

\* A call of push_operator with the lexer's position, which is already past
\* the operator, for the position of the operator.
Call_push_operator_lexer_pos(s, p, op, pos) ==
    DoCall(s, p, [Frame("push_operator", "loop") EXCEPT !.op = op,
                                                        !.pos = s.lexer.pos])

\* A call of push_operator((op, pos)).
Call_push_operator(s, p, op, pos) ==
    DoCall(s, p, [Frame("push_operator", "loop") EXCEPT !.op = op, !.pos = pos])

\* parse(text) after its call of next_token returned r, up to the call of
\* parse_e.
parse_from(r) ==
    IF r.kind = "Panic"
    THEN [lexer |-> r.lexer, next |-> NoToken, op_stack |-> <<>>,
          exp_stack |-> <<>>, stack |-> <<>>, ret |-> OkUnit,
          result |-> PanicResult(r.err.msg)]
    ELSE IF r.kind = "Err"
    THEN [lexer |-> r.lexer, next |-> NoToken, op_stack |-> <<>>,
          exp_stack |-> <<>>, stack |-> <<>>, ret |-> OkUnit,
          result |-> Err(r.err)]
    ELSE Call_parse_e([lexer |-> r.lexer, next |-> r.tok,
                       op_stack |-> << [op |-> SENTINEL, pos |-> 0] >>,
                       exp_stack |-> <<>>, stack |-> << Frame("parse", "after_e") >>,
                       ret |-> OkUnit, result |-> NoResult],
                      "after_e")

\* parse(text)
parse(text) == parse_from(next_token(Lexer_new(text)))

\* ShuntingYard::parse after expect(End): the two assertions and the result.
parse_expected(c) ==
    IF c.result.kind # "None" THEN c
    ELSE IF c.ret.kind = "Err" THEN Finish(c, c.ret)
    ELSE IF Len(c.exp_stack) # 1
    THEN DoPanic(c, <<"assertion failed: exp_stack.len() == 1">>)
    ELSE IF Len(c.op_stack) # 1
    THEN DoPanic(c, <<"assertion failed: op_stack.len() == 1">>)
    ELSE Finish([c EXCEPT !.exp_stack = Front(@)], OkNode(Last(c.exp_stack)))

\* ShuntingYard::parse that does not expect the end of the text.
ShuntingYard_parse_no_expect(s) ==
    IF s.ret.kind = "Err" THEN Finish(s, s.ret) ELSE parse_expected(s)

\* ShuntingYard::parse, after parse_e returned.
ShuntingYard_parse(s) ==
    IF s.ret.kind = "Err" THEN Finish(s, s.ret) ELSE parse_expected(expect(s, TEnd))

\* parse_e without try! on its calls of parse_p.
parse_e_loop_no_try(s) ==
    IF s.next.typ.typ = "OpSingle"
    THEN LET ch == s.next.typ.ch
             b  == get_op(ch, "Binary")
             p  == get_op(ch, "Postfix")
         IN  IF b # <<>> THEN Call_push_operator(s, "bin_pushed", b[1], s.next.pos)
             ELSE IF p # <<>> THEN Call_push_operator(s, "post_pushed", p[1], s.next.pos)
             ELSE DoGoto(s, "drain")
    ELSE DoGoto(s, "drain")

\* parse_e: the test of the while-let loop, after a parse_p or a postfix
\* operator.
parse_e_loop(s) ==
    IF s.ret.kind = "Err" THEN DoReturn(s, s.ret)
    ELSE IF s.next.typ.typ = "OpSingle"
    THEN LET ch == s.next.typ.ch
             b  == get_op(ch, "Binary")
             p  == get_op(ch, "Postfix")
         IN  IF b # <<>> THEN Call_push_operator(s, "bin_pushed", b[1], s.next.pos)
             ELSE IF p # <<>> THEN Call_push_operator(s, "post_pushed", p[1], s.next.pos)
             ELSE DoGoto(s, "drain")
    ELSE DoGoto(s, "drain")

\* parse_e: the binary operator has been consumed.
parse_e_bin_consumed(c) ==
    IF Failed(c) THEN Try(c) ELSE DoCall(c, "loop", Frame("parse_p", "start"))

\* parse_e: a binary operator has been pushed.
parse_e_bin_pushed(s) == parse_e_bin_consumed(consume(s))

\* parse_e that leaves the reduction of a postfix operator to the final loop.
parse_e_post_pushed_no_pop(s) == DoGoto(s, "post_popped")

\* parse_e: a postfix operator has been pushed.
parse_e_post_pushed(s) == DoCall(s, "post_popped", Frame("pop_operator", "start"))

\* parse_e: the postfix operator has been consumed.
parse_e_post_consumed(c) == IF Failed(c) THEN Try(c) ELSE DoGoto(c, "loop")

\* parse_e: a postfix operator has been reduced.
parse_e_post_popped(s) == parse_e_post_consumed(consume(s))

\* parse_e returning without its final loop.
parse_e_drain_none(s) == DoReturn(s, OkUnit)

\* parse_e: the final loop, down to the nearest sentinel.
parse_e_drain(s) ==
    IF ~is_sentinel(s.op_stack)
    THEN DoCall(s, "drain", Frame("pop_operator", "start"))
    ELSE DoReturn(s, OkUnit)

\* The last arm of parse_p taking the token for an empty operand.
parse_p_other_ok(s) == DoReturn(s, OkUnit)

\* parse_p: the last arm of the match, for a token no operand starts with.
parse_p_other(s) ==
    DoReturn(s, Err(ParseErr(<<"Unexpected token ">> \o DebugToken(s.next))))

\* parse_p: the number has been pushed and consumed.
parse_p_number(c) == IF Failed(c) THEN Try(c) ELSE DoReturn(c, OkUnit)

\* parse_p: the identifier str at pos has been consumed.
parse_p_ident(c, str, pos) ==
    IF Failed(c) THEN Try(c)
    ELSE IF match_starting_parens(c)
    THEN DoCall([c EXCEPT !.stack[Len(c.stack)].name = str,
                          !.stack[Len(c.stack)].pos = pos],
                "func", [Frame("parse_parens", "start") EXCEPT !.pos = pos])
    ELSE DoReturn([c EXCEPT !.exp_stack = Append(@, Ident(str, pos))], OkUnit)

\* parse_p: the match on the lookahead.
parse_p_start(s) ==
    LET tt  == s.next.typ
        pos == s.next.pos
    IN  IF tt.typ = "Number"
        THEN parse_p_number(
               consume([s EXCEPT !.exp_stack = Append(@, Number(tt.num, pos))]))
        ELSE IF tt.typ = "Ident"
        THEN parse_p_ident(consume(s), tt.str, pos)
        ELSE IF tt = TOpSingle("(")
        THEN DoCall([s EXCEPT !.stack[Len(s.stack)].pos = pos], "parens",
                    [Frame("parse_parens", "start") EXCEPT !.pos = pos])
        ELSE IF tt.typ = "OpSingle"
        THEN LET u == get_op(tt.ch, "Prefix")
             IN  IF u # <<>>
                 THEN Call_push_operator(s, "prefix_pushed", u[1], pos)
                 ELSE DoReturn(s, Err(ParseErr(
                         <<"Expected unary operator, but got ", "'", tt.ch, "'">>)))
        ELSE parse_p_other(s)

\* parse_p: parse_parens returned the argument of a function call.
parse_p_func(s) ==
    IF s.ret.kind = "Err" THEN DoReturn(s, s.ret)
    ELSE DoReturn([s EXCEPT !.exp_stack =
                      Append(@, Func(Last(s.stack).name, s.ret.node[1],
                                     Last(s.stack).pos))],
                  OkUnit)

\* parse_p: parse_parens returned the inside of a pair of parentheses.
parse_p_parens(s) ==
    IF s.ret.kind = "Err" THEN DoReturn(s, s.ret)
    ELSE DoReturn([s EXCEPT !.exp_stack =
                      Append(@, Parens(s.ret.node[1], Last(s.stack).pos))],
                  OkUnit)

\* parse_p: the prefix operator has been consumed.
parse_p_prefix_consumed(c) ==
    IF Failed(c) THEN Try(c) ELSE DoCall(c, "prefix_done", Frame("parse_p", "start"))

\* parse_p: a prefix operator has been pushed.
parse_p_prefix_pushed(s) == parse_p_prefix_consumed(consume(s))

\* parse_p: the operand of a prefix operator has been parsed.
parse_p_prefix_done(s) ==
    IF s.ret.kind = "Err" THEN DoReturn(s, s.ret) ELSE DoReturn(s, OkUnit)

\* parse_parens pushing no sentinel.
parse_parens_consumed_no_sentinel(c, pos) ==
    IF Failed(c) THEN Try(c) ELSE Call_parse_e(c, "after_e")

\* parse_parens: the "(" has been consumed.
parse_parens_consumed(c, pos) ==
    IF Failed(c) THEN Try(c)
    ELSE Call_parse_e([c EXCEPT !.op_stack = Append(@, [op |-> SENTINEL, pos |-> pos])],
                      "after_e")

\* parse_parens, up to its call of parse_e.
parse_parens_start(s) ==
    IF ~match_starting_parens(s)
    THEN DoPanic(s, <<"assertion failed: self.match_starting_parens()">>)
    ELSE parse_parens_consumed(consume(s), Last(s.stack).pos)

\* parse_parens after expect(")"): the sentinel and the subtree are popped.
parse_parens_expected(c) ==
    IF Failed(c) THEN Try(c)
    ELSE IF c.op_stack = <<>> \/ c.exp_stack = <<>> THEN DoPanic(c, UnwrapNone)
    ELSE DoReturn([c EXCEPT !.op_stack = Front(@), !.exp_stack = Front(@)],
                  OkNode(Last(c.exp_stack)))

\* parse_parens, after parse_e returned.
parse_parens_after_e(s) ==
    IF s.ret.kind = "Err" THEN DoReturn(s, s.ret)
    ELSE parse_parens_expected(expect(s, TOpSingle(")")))

\* push_operator: one test of its while loop.
push_operator(s) ==
    LET op_pos == [op |-> Last(s.stack).op, pos |-> Last(s.stack).pos]
    IN  IF s.op_stack = <<>> THEN DoPanic(s, UnwrapNone)
        ELSE IF has_greater_prec(Last(s.op_stack).op, op_pos.op)
        THEN DoCall(s, "loop", Frame("pop_operator", "start"))
        ELSE DoReturn([s EXCEPT !.op_stack = Append(@, op_pos)], OkUnit)

\* pop_operator with the operands of a binary operator the other way round.
pop_operator_swapped(s) ==
    IF s.op_stack = <<>> \/ s.exp_stack = <<>> THEN DoPanic(s, UnwrapNone)
    ELSE
      LET op  == Last(s.op_stack).op
          pos == Last(s.op_stack).pos
          t   == Last(s.exp_stack)
          e1  == Front(s.exp_stack)
          s1  == [s EXCEPT !.op_stack = Front(@)]
      IN  CASE op.typ = "Binary" ->
                 IF e1 = <<>> THEN DoPanic(s, UnwrapNone)
                 ELSE DoReturn([s1 EXCEPT !.exp_stack =
                                   Append(Front(e1), Binary(op.ch, t, Last(e1), pos))],
                               OkUnit)
            [] op.typ = "Prefix" ->
                 DoReturn([s1 EXCEPT !.exp_stack = Append(e1, Prefix(op.ch, t, pos))],
                          OkUnit)
            [] op.typ = "Postfix" ->
                 DoReturn([s1 EXCEPT !.exp_stack = Append(e1, Postfix(op.ch, t, pos))],
                          OkUnit)
            [] op.typ = "Sentinel" ->
                 DoPanic(s, <<"Unexpected Sentinel from position ", ToString(pos),
                              " on operator stack">>)

\* pop_operator
pop_operator(s) ==
    IF s.op_stack = <<>> \/ s.exp_stack = <<>> THEN DoPanic(s, UnwrapNone)
    ELSE
      LET op  == Last(s.op_stack).op
          pos == Last(s.op_stack).pos
          t   == Last(s.exp_stack)
          e1  == Front(s.exp_stack)
          s1  == [s EXCEPT !.op_stack = Front(@)]
      IN  CASE op.typ = "Binary" ->
                 IF e1 = <<>> THEN DoPanic(s, UnwrapNone)
                 ELSE DoReturn([s1 EXCEPT !.exp_stack =
                                   Append(Front(e1), Binary(op.ch, Last(e1), t, pos))],
                               OkUnit)
            [] op.typ = "Prefix" ->
                 DoReturn([s1 EXCEPT !.exp_stack = Append(e1, Prefix(op.ch, t, pos))],
                          OkUnit)
            [] op.typ = "Postfix" ->
                 DoReturn([s1 EXCEPT !.exp_stack = Append(e1, Postfix(op.ch, t, pos))],
                          OkUnit)
            [] op.typ = "Sentinel" ->
                 DoPanic(s, <<"Unexpected Sentinel from position ", ToString(pos),
                              " on operator stack">>)

----------------------------------------------------------------------------
(***************************************************************************)
(* The texts parse is called on.                                           *)
(***************************************************************************)
\* The texts of the worked examples and of the crate's two tests.
Text_3p4m5 ==
    <<"3", "+", "4", "*", "5">>
Text_2e3e4 ==
    <<"2", "^", "3", "^", "4">>
Text_paren ==
    <<"(", "3", "*", "x", "+", "4", ")">>
Text_log ==
    <<"l", "o", "g", "(", "x", "+", "1", ")">>
Text_fact ==
    <<"5", "!">>
Text_neg ==
    <<"-", "5">>
Text_amp ==
    <<"3", " ", "&", " ", "4">>
Text_open ==
    <<"(", "3", "+">>
Text_scope ==
    <<"3", "+", "(", "-", "-", "x", ")">>
Text_test ==
    <<"(", "3", "*", "x", "+", "4", ")", "!", "!", "-", " ", "5", "*", "2", "^", "x", "!", "^", "2", "+",
      "l", "o", "g", "(", "z", "y", "^", "2", "^", "3", ")", "-", "-", "5">>
Text_lexer_test ==
    <<"l", "o", "g", "(", "3", "x", "!", "!", "+", "4", ")", "-", " ",
      "5", "x", " ", "z", "y", "^", "2", "^", "3">>

Examples == {Text_3p4m5, Text_2e3e4, Text_paren, Text_log, Text_fact, Text_neg,
             Text_amp, Text_open, Text_scope, Text_test, Text_lexer_test}

\* The characters short texts are made of.
Alphabet == {"3", ".", "e", "x", "+", "-", "*", "^", "!", "=", "(", ")",
             " ", "&", "nbsp", "u0663"}

\* Every text of at most MaxLen characters of Alphabet.
ShortTexts == UNION {[1..n -> Alphabet] : n \in 0..MaxLen}

\* Number and identifier operands, and the binary operators of OPS.
Operands == {<<"3">>, <<"x">>, <<"2", ".", "5">>}
BinaryChars == {OPS[i].ch : i \in {j \in 1..Len(OPS) : OPS[j].typ = "Binary"}}

\* The text xs[1] os[1] xs[2] os[2] ... xs[n+1] of a chain of n operators.
RECURSIVE ChainText(_, _)
ChainText(xs, os) ==
    IF os = <<>> THEN xs[1]
    ELSE xs[1] \o <<os[1]>> \o ChainText(Tail(xs), Tail(os))

\* The chains of 1 to MaxChain binary operators, and of 1 to MaxPow
\* operators ^.
Chains ==
    UNION {{ChainText(xs, os) : xs \in [1..n + 1 -> Operands],
                                os \in [1..n -> BinaryChars]} : n \in 1..MaxChain}
PowChains ==
    UNION {{ChainText(xs, [i \in 1..n |-> "^"]) : xs \in [1..n + 1 -> Operands]}
              : n \in 1..MaxPow}

\* An operand with the postfix or the prefix operator.
UnaryTexts == {x \o <<"!">> : x \in Operands} \cup {<<"-">> \o x : x \in Operands}

\* Prefix operators in a row, and as the right operand of a binary operator.
PrefixTexts ==
    {<<"-", "-">> \o x : x \in Operands}
      \cup {a \o <<op, "-">> \o b : a \in Operands, b \in Operands, op \in BinaryChars}
      \cup {a \o <<op, "-", "-">> \o b :
                a \in Operands, b \in Operands, op \in BinaryChars}

Inputs == ShortTexts \cup Chains \cup PowChains \cup UnaryTexts \cup PrefixTexts
            \cup Examples

\* Function names the caller wraps a text in.
Names == {<<"x">>, <<"l", "o", "g">>}

NoPrev == [used |-> FALSE, input |-> <<>>, result |-> NoResult, wrap |-> <<>>]

----------------------------------------------------------------------------
(***************************************************************************)
(* The state machine.                                                      *)
(***************************************************************************)
Idle == [lexer |-> Lexer_new(<<>>), next |-> NoToken, op_stack |-> <<>>,
         exp_stack |-> <<>>, stack |-> <<>>, ret |-> OkUnit, result |-> NoResult]

\* The number of sentinels of an operator stack.
Sentinels(ops) == Cardinality({i \in 1..Len(ops) : ops[i].op.typ = "Sentinel"})

\* scopes after a step that leaves n sentinels on the operator stack, taken
\* with the expression stack h high: a sentinel pushed opens a scope at h, a
\* sentinel popped closes the innermost scope.
Opened(n, h) ==
    IF n > Len(scopes) THEN Append(scopes, h) ELSE SubSeq(scopes, 1, n)

Apply(s) ==
    /\ lexer' = s.lexer
    /\ next' = s.next
    /\ op_stack' = s.op_stack
    /\ exp_stack' = s.exp_stack
    /\ stack' = s.stack
    /\ ret' = s.ret
    /\ result' = s.result
    /\ scopes' = Opened(Sentinels(s.op_stack), Len(exp_stack))
    /\ UNCHANGED <<input, prev, results, lexer_clone, results_clone>>

\* The running function is f, at pc p.
At(f, p) == stack # <<>> /\ Last(stack).fn = f /\ Last(stack).pc = p

Init ==
    /\ input \in Inputs
    /\ prev = NoPrev
    /\ results = <<>>
    /\ lexer_clone = Idle.lexer
    /\ results_clone = <<>>
    /\ scopes = <<>>
    /\ lexer = Idle.lexer
    /\ next = Idle.next
    /\ op_stack = Idle.op_stack
    /\ exp_stack = Idle.exp_stack
    /\ stack = Idle.stack
    /\ ret = Idle.ret
    /\ result = Idle.result

Parse == stack = <<>> /\ result.kind = "None" /\ Apply(parse(input))
ParseEnd == At("parse", "after_e") /\ Apply(ShuntingYard_parse(St))
ParseELoop == At("parse_e", "loop") /\ Apply(parse_e_loop(St))
ParseEBinary == At("parse_e", "bin_pushed") /\ Apply(parse_e_bin_pushed(St))
ParseEPostfix == At("parse_e", "post_pushed") /\ Apply(parse_e_post_pushed(St))
ParseEPostfixDone == At("parse_e", "post_popped") /\ Apply(parse_e_post_popped(St))
ParseEDrain == At("parse_e", "drain") /\ Apply(parse_e_drain(St))
ParseP == At("parse_p", "start") /\ Apply(parse_p_start(St))
ParsePFunc == At("parse_p", "func") /\ Apply(parse_p_func(St))
ParsePParens == At("parse_p", "parens") /\ Apply(parse_p_parens(St))
ParsePPrefix == At("parse_p", "prefix_pushed") /\ Apply(parse_p_prefix_pushed(St))
ParsePPrefixDone == At("parse_p", "prefix_done") /\ Apply(parse_p_prefix_done(St))
ParseParens == At("parse_parens", "start") /\ Apply(parse_parens_start(St))
ParseParensEnd == At("parse_parens", "after_e") /\ Apply(parse_parens_after_e(St))
PushOperator == At("push_operator", "loop") /\ Apply(push_operator(St))
PopOperator == At("pop_operator", "start") /\ Apply(pop_operator(St))

\* The caller, after a successful parse of a text, parses the text again in
\* parentheses, or as the argument of a function.
ParseWrapped ==
    /\ result.kind = "Ok"
    /\ ~prev.used
    /\ \E w \in {<<>>} \cup Names :
         /\ prev' = [used |-> TRUE, input |-> input, result |-> result, wrap |-> w]
         /\ input' = w \o <<"(">> \o input \o <<")">>
    /\ lexer' = Idle.lexer
    /\ next' = Idle.next
    /\ op_stack' = Idle.op_stack
    /\ exp_stack' = Idle.exp_stack
    /\ stack' = Idle.stack
    /\ ret' = Idle.ret
    /\ result' = Idle.result
    /\ scopes' = <<>>
    /\ UNCHANGED <<results, lexer_clone, results_clone>>

Next ==
    \/ Parse
    \/ ParseEnd
    \/ ParseELoop
    \/ ParseEBinary
    \/ ParseEPostfix
    \/ ParseEPostfixDone
    \/ ParseEDrain
    \/ ParseP
    \/ ParsePFunc
    \/ ParsePParens
    \/ ParsePPrefix
    \/ ParsePPrefixDone
    \/ ParseParens
    \/ ParseParensEnd
    \/ PushOperator
    \/ PopOperator
    \/ ParseWrapped

Spec == Init /\ [][Next]_vars

(***************************************************************************)
(* A direct user of a lexer: it makes a lexer for a text and calls         *)
(* next_token up to MaxCalls times, whatever the calls return.             *)
(***************************************************************************)
InitLex ==
    /\ input \in Inputs
    /\ lexer = Lexer_new(input)
    /\ results = <<>>
    /\ lexer_clone = Idle.lexer
    /\ results_clone = <<>>
    /\ scopes = <<>>
    /\ prev = NoPrev
    /\ next = Idle.next
    /\ op_stack = Idle.op_stack
    /\ exp_stack = Idle.exp_stack
    /\ stack = Idle.stack
    /\ ret = Idle.ret
    /\ result = Idle.result

\* The call returned r.
Called(r) == lexer' = r.lexer /\ results' = Append(results, r)

NextToken ==
    /\ Len(results) < MaxCalls
    /\ results # <<>> => Last(results).kind # "Panic"
    /\ Called(next_token(lexer))
    /\ UNCHANGED <<input, next, op_stack, exp_stack, stack, ret, result, prev,
                   lexer_clone, results_clone, scopes>>

NextLex == NextToken

SpecLex == InitLex /\ [][NextLex]_vars

(***************************************************************************)
(* A user of the two iterators, as test_lexer_iter_eq: it makes a lexer    *)
(* for a text, clones it, and compares what iterating the lexer and        *)
(* iterating lexer_clone.iter() yield, element by element, going on up to  *)
(* MaxCalls elements whatever they are.                                    *)
(***************************************************************************)
InitIter ==
    /\ input \in Inputs
    /\ lexer = Lexer_new(input)
    /\ lexer_clone = lexer
    /\ results = <<>>
    /\ results_clone = <<>>
    /\ scopes = <<>>
    /\ prev = NoPrev
    /\ next = Idle.next
    /\ op_stack = Idle.op_stack
    /\ exp_stack = Idle.exp_stack
    /\ stack = Idle.stack
    /\ ret = Idle.ret
    /\ result = Idle.result

\* No call has panicked.
Running(rs) == rs # <<>> => Last(rs).kind # "Panic"

LexerNext ==
    /\ Len(results) < MaxCalls
    /\ Len(results) = Len(results_clone)
    /\ Running(results) /\ Running(results_clone)
    /\ Called(Lexer_next(lexer))
    /\ UNCHANGED <<input, next, op_stack, exp_stack, stack, ret, result, prev,
                   lexer_clone, results_clone, scopes>>

IterNext ==
    /\ Len(results_clone) < Len(results)
    /\ Running(results_clone)
    /\ lexer_clone' = Iter_next(lexer_clone).lexer
    /\ results_clone' = Append(results_clone, Iter_next(lexer_clone))
    /\ UNCHANGED <<input, next, op_stack, exp_stack, stack, ret, result, prev,
                   lexer, results, scopes>>

NextIter ==
    \/ LexerNext
    \/ IterNext

SpecIter == InitIter /\ [][NextIter]_vars

----------------------------------------------------------------------------
(***************************************************************************)
(* Properties.  Trees are compared by shape: a tree without its positions. *)
(***************************************************************************)
RECURSIVE Shape(_)
Shape(t) ==
    [typ |-> t.typ, num |-> t.num, name |-> t.name, ch |-> t.ch,
     args |-> [i \in 1..Len(t.args) |-> Shape(t.args[i])]]

SNum(m, e) == [typ |-> "Number", num |-> [m |-> m, e |-> e, inf |-> FALSE],
               name |-> <<>>, ch |-> "", args |-> <<>>]
SId(n) == [typ |-> "Ident", num |-> NoNum, name |-> n, ch |-> "", args |-> <<>>]
SFun(n, a) == [typ |-> "Func", num |-> NoNum, name |-> n, ch |-> "", args |-> <<a>>]
SBin(c, a, b) ==
    [typ |-> "Binary", num |-> NoNum, name |-> <<>>, ch |-> c, args |-> <<a, b>>]
SPre(c, a) == [typ |-> "Prefix", num |-> NoNum, name |-> <<>>, ch |-> c, args |-> <<a>>]
SPost(c, a) ==
    [typ |-> "Postfix", num |-> NoNum, name |-> <<>>, ch |-> c, args |-> <<a>>]
SPar(a) == [typ |-> "Parens", num |-> NoNum, name |-> <<>>, ch |-> "", args |-> <<a>>]

\* The leaf an operand text stands for.
Leaf(x) ==
    CASE x = <<"3">> -> SNum(3, 0)
      [] x = <<"x">> -> SId(<<"x">>)
      [] x = <<"2", ".", "5">> -> SNum(25, -1)

\* parse has returned.
Done == result.kind # "None"
\* parse has returned Ok with a tree of shape sh.
Returns(sh) == result.kind = "Ok" /\ Shape(result.node[1]) = sh

PrecOf(c) == (CHOOSE i \in 1..Len(OPS) : OPS[i].ch = c /\ OPS[i].typ = "Binary")

\* C1: precedence.  For operands x, y, z and binary operators lo, hi with
\* prec(hi) > prec(lo), parse of "x lo y hi z" returns
\* BinaryOp(lo, x, BinaryOp(hi, y, z)) and parse of "x hi y lo z" returns
\* BinaryOp(lo, BinaryOp(hi, x, y), z); parse of "3+4*5" returns
\* BinaryOp(+, Number(3), BinaryOp(*, Number(4), Number(5))).
C1_Precedence ==
    Done =>
      /\ input \in Chains =>
           \A x \in Operands, y \in Operands, z \in Operands :
             \A lo \in BinaryChars, hi \in BinaryChars :
               OPS[PrecOf(hi)].prec > OPS[PrecOf(lo)].prec =>
                 /\ input = ChainText(<<x, y, z>>, <<lo, hi>>)
                      => Returns(SBin(lo, Leaf(x), SBin(hi, Leaf(y), Leaf(z))))
                 /\ input = ChainText(<<x, y, z>>, <<hi, lo>>)
                      => Returns(SBin(lo, SBin(hi, Leaf(x), Leaf(y)), Leaf(z)))
      /\ input = Text_3p4m5
           => Returns(SBin("+", SNum(3, 0), SBin("*", SNum(4, 0), SNum(5, 0))))

C1_Witness ==
    /\ result.kind = "Ok"
    /\ input = ChainText(<<<<"x">>, <<"3">>, <<"2", ".", "5">>>>, <<"-", "^">>)

\* A right-nested chain of ^ over the leaves of xs.
RECURSIVE RightNest(_)
RightNest(xs) ==
    IF Len(xs) = 1 THEN Leaf(xs[1])
    ELSE SBin("^", Leaf(xs[1]), RightNest(Tail(xs)))

\* C2: right associativity.  A chain of the operator ^, of any length, nests
\* to the right: parse of "a^b^c" returns BinaryOp(^, a, BinaryOp(^, b, c)),
\* and parse of "2^3^4" returns
\* BinaryOp(^, Number(2), BinaryOp(^, Number(3), Number(4))).
C2_RightAssociativity ==
    Done =>
      /\ input \in PowChains =>
           \A n \in 1..MaxPow : \A xs \in [1..n + 1 -> Operands] :
             input = ChainText(xs, [i \in 1..n |-> "^"]) => Returns(RightNest(xs))
      /\ input = Text_2e3e4
           => Returns(SBin("^", SNum(2, 0), SBin("^", SNum(3, 0), SNum(4, 0))))

C2_Witness ==
    /\ result.kind = "Ok"
    /\ input = ChainText([i \in 1..MaxPow + 1 |-> <<"x">>], [i \in 1..MaxPow |-> "^"])

\* C3: left associativity.  For binary operators op1, op2 of equal precedence
\* that are left-associative, parse of "a op1 b op2 c" returns
\* BinaryOp(op2, BinaryOp(op1, a, b), c): the operand pushed earlier is the
\* left child.
C3_LeftAssociativity ==
    (Done /\ input \in Chains) =>
      \A a \in Operands, b \in Operands, c \in Operands :
        \A op1 \in BinaryChars, op2 \in BinaryChars :
          ({op1, op2} \subseteq {"+", "-"} \/ {op1, op2} \subseteq {"*", "/"}) =>
            (input = ChainText(<<a, b, c>>, <<op1, op2>>)
               => Returns(SBin(op2, SBin(op1, Leaf(a), Leaf(b)), Leaf(c))))

C3_Witness ==
    /\ result.kind = "Ok"
    /\ input = ChainText(<<<<"3">>, <<"x">>, <<"2", ".", "5">>>>, <<"/", "*">>)

----------------------------------------------------------------------------
(***************************************************************************)
(* The grammar                                                             *)
(*   E --> P { BinOp P | PostfixOp }                                       *)
(*   P --> "(" E ")" | PrefixOp P | Ident "(" E ")" | Ident | Number       *)
(* over the characters of a text, tokens optionally separated by spaces.   *)
(* A recogniser returns the index after what it recognised, 0 for none.    *)
(***************************************************************************)
RECURSIVE SkipSpaces(_, _)
SkipSpaces(s, i) == IF i <= Len(s) /\ s[i] = " " THEN SkipSpaces(s, i + 1) ELSE i

\* The length of the Number token at the start of s, 0 for none.
NumberAt(s) ==
    IF \A i \in 1..REGEX_NUMBER(s) : s[i] \in AsciiDigits \cup {".", "e", "E"}
    THEN REGEX_NUMBER(s) ELSE 0

\* The index after a ")" at e (spaces skipped).
CloseAt(s, e) ==
    IF e # 0 /\ SkipSpaces(s, e) <= Len(s) /\ s[SkipSpaces(s, e)] = ")"
    THEN SkipSpaces(s, e) + 1 ELSE 0

RECURSIVE GrammarP(_, _), GrammarE(_, _), GrammarELoop(_, _)
GrammarP(s, i) ==
    LET j == SkipSpaces(s, i)
    IN  IF j > Len(s) THEN 0
        ELSE IF s[j] = "(" THEN CloseAt(s, GrammarE(s, j + 1))
        ELSE IF s[j] = "-" THEN GrammarP(s, j + 1)
        ELSE IF s[j] \in OPS_SINGLE THEN 0
        ELSE IF NumberAt(Drop(s, j - 1)) > 0 THEN j + NumberAt(Drop(s, j - 1))
        ELSE IF REGEX_IDENT(Drop(s, j - 1)) > 0
        THEN LET k == j + REGEX_IDENT(Drop(s, j - 1))
             IN  IF SkipSpaces(s, k) <= Len(s) /\ s[SkipSpaces(s, k)] = "("
                 THEN CloseAt(s, GrammarE(s, SkipSpaces(s, k) + 1))
                 ELSE k
        ELSE 0
GrammarE(s, i) == GrammarELoop(s, GrammarP(s, i))
GrammarELoop(s, e) ==
    LET j == SkipSpaces(s, e)
    IN  IF e = 0 THEN 0
        ELSE IF j > Len(s) THEN e
        ELSE IF s[j] \in BinaryChars THEN GrammarELoop(s, GrammarP(s, j + 1))
        ELSE IF s[j] = "!" THEN GrammarELoop(s, j + 1)
        ELSE e

\* The text s is derivable from E.
InGrammar(s) == GrammarE(s, 1) # 0 /\ SkipSpaces(s, GrammarE(s, 1)) > Len(s)

\* C4: for every text derivable from the grammar, parse returns Ok (no
\* error, no panic) and the End token the lexer reports has the position
\* that is the number of characters of the text.
C4_GrammarTextsParse ==
    (Done /\ InGrammar(input)) =>
        (result.kind = "Ok" /\ next = Token(TEnd, Len(input)))

\* C5: wrapping.  For every text s that parse returns a tree T for, parse of
\* "(" s ")" returns Parenthesized(T') and parse of name "(" s ")" returns
\* FunctionCall(name, T'), T' being T up to positions; parse of "(3*x+4)"
\* and of "log(x+1)" return the trees of the examples.
C5_Wrapping ==
    Done =>
      /\ prev.used =>
           /\ result.kind = "Ok"
           /\ result.node[1].typ = (IF prev.wrap = <<>> THEN "Parens" ELSE "Func")
           /\ result.node[1].name = prev.wrap
           /\ Len(result.node[1].args) = 1
           /\ Shape(result.node[1].args[1]) = Shape(prev.result.node[1])
      /\ input = Text_paren
           => Returns(SPar(SBin("+", SBin("*", SNum(3, 0), SId(<<"x">>)), SNum(4, 0))))
      /\ input = Text_log
           => Returns(SFun(<<"l", "o", "g">>, SBin("+", SId(<<"x">>), SNum(1, 0))))

C5_Witness ==
    /\ result.kind = "Ok"
    /\ prev.used
    /\ prev.wrap = <<"l", "o", "g">>
    /\ prev.input = <<"-", "x", "!">>

\* The pending reduction of the postfix operator parse_e has just pushed.
PostfixPending ==
    \/ At("parse_e", "post_pushed")
    \/ /\ At("pop_operator", "start")
       /\ Len(stack) > 1
       /\ stack[Len(stack) - 1].fn = "parse_e"
       /\ stack[Len(stack) - 1].pc = "post_popped"

\* C6: for a number or identifier x, parse of "x!" returns PostfixOp(!, x)
\* and parse of "-x" returns PrefixOp(-, x); a postfix operator is on the
\* operator stack only between its push and the reduction that follows at
\* once, never after that step.
C6_UnaryOperators ==
    /\ (Done /\ input \in UnaryTexts) =>
         \A x \in Operands :
           /\ input = x \o <<"!">> => Returns(SPost("!", Leaf(x)))
           /\ input = <<"-">> \o x => Returns(SPre("-", Leaf(x)))
    /\ \A i \in 1..Len(op_stack) :
         op_stack[i].op.typ = "Postfix" => (i = Len(op_stack) /\ PostfixPending)

C6_Witness ==
    /\ result.kind = "Ok"
    /\ input = <<"2", ".", "5", "!">>
    /\ result.node[1].typ = "Postfix"

----------------------------------------------------------------------------
(***************************************************************************)
(* Errors.                                                                 *)
(***************************************************************************)
\* The call of next_token number i is the first that returned an error.
FirstError(i) ==
    /\ i \in 1..Len(results)
    /\ results[i].kind = "Err"
    /\ \A k \in 1..(i - 1) : results[k].kind # "Err"

\* C7: once a call of next_token has returned an error, every later call
\* returns a Lex error whose message is the first error's message with the
\* prefix "Errored previously: " once; the later calls leave the position,
\* the remaining text and the marker as the failing call left them, and the
\* marker is set by that first failure only.
C7_StickyError ==
    /\ \A i \in 1..Len(results) :
         FirstError(i) =>
           /\ results[i].err.msg[1] # ErroredPreviously
           /\ results[i].lexer.error
                = << <<ErroredPreviously>> \o results[i].err.msg >>
           /\ \A j \in (i + 1)..Len(results) :
                /\ results[j].kind = "Err"
                /\ results[j].err = LexError(<<ErroredPreviously>> \o results[i].err.msg)
                /\ results[j].lexer = results[i].lexer
    /\ \A k \in 1..Len(results) :
         results[k].kind = "Ok" => results[k].lexer.error = <<>>

C7_Witness ==
    /\ input = Text_amp
    /\ Len(results) = MaxCalls
    /\ results[1].kind = "Ok"
    /\ FirstError(2)

\* C8 as stated: the text "(3+" makes parse return an error of kind Parse
\* that names the missing ")" as what was expected, without a panic.
C8_NamesMissingParen ==
    (Done /\ input = Text_open) =>
        /\ result.kind = "Err"
        /\ result.err.kind = "Parse"
        /\ \E i \in 1..Len(result.err.msg) :
             /\ result.err.msg[i] = "Expected "
             /\ SubSeq(result.err.msg, i + 1, i + 3) = DebugTokenType(TOpSingle(")"))

\* C8, amended: the text "(3+" makes parse return an error of kind Parse,
\* without a panic; the error is the one of parse_p for the End token at
\* position 3, met where an operand was expected.
C8_UnexpectedEnd ==
    (Done /\ input = Text_open) =>
        result = Err(ParseErr(<<"Unexpected token ">> \o DebugToken(Token(TEnd, 3))))

C8_Witness ==
    /\ input = Text_open
    /\ result.kind = "Err"
    /\ Len(op_stack) = 3

\* The error on its way to the caller of parse, or returned to it.
Carried == IF Done THEN result ELSE ret

\* C9: when the lexer fails during parse, parse stops there and returns that
\* very error (kind and message), not the repeated form; no next_token is
\* called on the poisoned lexer, and no tree is returned.  An error of the
\* lexer's kinds comes from a failure of the lexer.
C9_FirstErrorPropagates ==
    /\ lexer.error # <<>> =>
         /\ Carried.kind = "Err"
         /\ Carried.node = <<>>
         /\ \/ Carried.err = FloatError
            \/ Carried.err.kind = "Lex" /\ Carried.err.msg[1] = "Unexpected '"
         /\ lexer.error = << <<ErroredPreviously>> \o Carried.err.msg >>
    /\ (Carried.kind = "Err" /\ Carried.err.kind \in {"Lex", "Float"})
         => lexer.error # <<>>

C9_Witness ==
    /\ result.kind = "Err"
    /\ result.err.kind = "Lex"
    /\ input = Text_amp

\* C10: when an expression has been parsed at top level and the lookahead
\* is not End, parse returns an error of kind Parse and no tree.
C10_TrailingTokens ==
    [][(At("parse", "after_e") /\ ret.kind = "Ok" /\ next.typ # TEnd)
         => /\ result'.kind = "Err"
            /\ result'.err.kind = "Parse"
            /\ result'.node = <<>>
            /\ result'.err.msg[1] = "Expected "
            /\ stack' = <<>>]_vars

C10_Witness ==
    /\ result.kind = "Err"
    /\ result.err.kind = "Parse"
    /\ result.err.msg[1] = "Expected "
    /\ Len(exp_stack) = 1
    /\ Len(op_stack) = 1
    /\ next.typ = TOpSingle("=")

\* The message msg contains the pieces part, in a row.
Carries(msg, part) ==
    \E i \in 1..(Len(msg) - Len(part) + 1) :
        SubSeq(msg, i, i + Len(part) - 1) = part

\* C11: every error of kind Parse that parse returns carries the expected
\* construct, the offending token (the lookahead when the error was raised)
\* and the position of that token.
C11_ParseErrorsCarryAll ==
    (Done /\ result.kind = "Err" /\ result.err.kind = "Parse") =>
        /\ result.err.msg[1] \in {"Expected ", "Expected unary operator, but got "}
        /\ \/ Carries(result.err.msg, DebugTokenType(next.typ))
           \/ /\ next.typ.typ = "OpSingle"
              /\ Carries(result.err.msg, <<"'", next.typ.ch, "'">>)
        /\ \/ Carries(result.err.msg, <<" at position ", ToString(next.pos)>>)
           \/ Carries(result.err.msg, <<", pos: ", ToString(next.pos), " }">>)

----------------------------------------------------------------------------
(***************************************************************************)
(* Positions.                                                              *)
(***************************************************************************)
\* The characters of text from index i on.
From(text, i) == SubSeq(text, i, Len(text))

\* The token at index i of text is the number v / the identifier str: the
\* literal starts there (no digit or letter runs into it) and reads as v / str.
NumberStartsAt(text, i, v) ==
    /\ i \in 1..Len(text)
    /\ i > 1 => ~IsRegexDigit(text[i - 1])
    /\ REGEX_NUMBER(From(text, i)) > 0
    /\ from_str(Take(From(text, i), REGEX_NUMBER(From(text, i)))) = <<v>>
IdentStartsAt(text, i, str) ==
    /\ i \in 1..Len(text)
    /\ i > 1 => ~IsAlpha(text[i - 1])
    /\ REGEX_IDENT(From(text, i)) = Len(str)
    /\ Take(From(text, i), Len(str)) = str

\* Every node of the tree t has the position of its defining token in text:
\* pos characters come before the token.
RECURSIVE PositionsIn(_, _)
PositionsIn(t, text) ==
    /\ CASE t.typ \in {"Binary", "Prefix", "Postfix"} ->
              t.pos + 1 \in 1..Len(text) /\ text[t.pos + 1] = t.ch
         [] t.typ = "Number" -> NumberStartsAt(text, t.pos + 1, t.num)
         [] t.typ \in {"Ident", "Func"} -> IdentStartsAt(text, t.pos + 1, t.name)
         [] t.typ = "Parens" -> t.pos + 1 \in 1..Len(text) /\ text[t.pos + 1] = "("
    /\ \A k \in 1..Len(t.args) : PositionsIn(t.args[k], text)

\* C12: in every tree parse returns, each node's pos is the number of
\* characters of the input before its defining token: the operator character
\* of a BinaryOp, PrefixOp or PostfixOp, the first character of a Number,
\* Identifier or FunctionCall, the "(" of a Parenthesized.
C12_NodePositions ==
    result.kind = "Ok" => PositionsIn(result.node[1], input)

C12_Witness ==
    /\ result.kind = "Ok"
    /\ input = Text_test
    /\ result.node[1].typ = "Binary"
    /\ result.node[1].pos = 31

----------------------------------------------------------------------------
(***************************************************************************)
(* The lexer, called directly.                                             *)
(***************************************************************************)
\* The lexer before the call of next_token number i.
LexerBefore(i) == IF i = 1 THEN Lexer_new(input) ELSE results[i - 1].lexer

\* C13: once next_token has returned End at position p (the lexer is not
\* poisoned then), every later call returns End at p again, without an error,
\* and leaves the lexer as it was: no text, position p, no marker.
C13_EndStable ==
    \A i \in 1..Len(results) :
        (results[i].kind = "Ok" /\ results[i].tok.typ = TEnd) =>
            /\ results[i].lexer = [text |-> <<>>, pos |-> results[i].tok.pos,
                                   error |-> <<>>]
            /\ \A j \in (i + 1)..Len(results) :
                 /\ results[j].kind = "Ok"
                 /\ results[j].tok = results[i].tok
                 /\ results[j].lexer = results[i].lexer

C13_Witness ==
    /\ input = <<"3", " ">>
    /\ Len(results) = 4
    /\ results[1].tok.typ.typ = "Number"
    /\ results[2].tok = Token(TEnd, 2)
    /\ results[4].tok = Token(TEnd, 2)

\* The number of whitespace characters text starts with.
RECURSIVE WhitespaceRun(_)
WhitespaceRun(text) ==
    IF text # <<>> /\ is_whitespace(Head(text))
    THEN 1 + WhitespaceRun(Tail(text)) ELSE 0

\* The call of next_token number i met the text rest after the whitespace.
MetText(i) == Drop(LexerBefore(i).text, WhitespaceRun(LexerBefore(i).text))

\* C14: whenever the first character after the whitespace is one of
\* + - * / ^ ! = ( ), next_token consumes that one character and returns
\* OpSingle of it at the position before it; no Number token starts with a
\* sign, and "-5" lexes as the operator "-" followed by Number(5).
C14_OperatorPriority ==
    /\ \A i \in 1..Len(results) :
         /\ (MetText(i) # <<>> /\ Head(MetText(i)) \in OPS_SINGLE) =>
              /\ results[i].kind = "Ok"
              /\ results[i].tok =
                   Token(TOpSingle(Head(MetText(i))),
                         LexerBefore(i).pos + WhitespaceRun(LexerBefore(i).text))
              /\ results[i].lexer.text = Tail(MetText(i))
              /\ results[i].lexer.pos = results[i].tok.pos + 1
         /\ (results[i].kind = "Ok" /\ results[i].tok.typ.typ = "Number") =>
              Head(MetText(i)) \notin {"+", "-"}
    /\ (input = Text_neg /\ Len(results) >= 2) =>
         /\ results[1].tok = Token(TOpSingle("-"), 0)
         /\ results[2].tok = Token(TNumber([m |-> 5, e |-> 0, inf |-> FALSE]), 1)

----------------------------------------------------------------------------
(***************************************************************************)
(* Iteration.                                                              *)
(***************************************************************************)
\* What k calls of next_token in a row return, from the lexer lx on, up to a
\* panic.
RECURSIVE NextTokens(_, _), NextTokensFrom(_, _)
NextTokens(lx, k) == IF k = 0 THEN <<>> ELSE NextTokensFrom(next_token(lx), k)
NextTokensFrom(r, k) ==
    <<r>> \o (IF r.kind = "Panic" THEN <<>> ELSE NextTokens(r.lexer, k - 1))

\* The result r ends an iteration: End, or an error.
Ends(r) == r.kind = "Err" \/ (r.kind = "Ok" /\ r.tok.typ = TEnd)

\* The items xs are what iterating yields, given the results ts of as many
\* calls of next_token on a lexer of its own: the results up to the first End
\* or error, without the End and with the error, and None beyond.
YieldsOf(xs, ts) ==
    \A i \in 1..Len(xs) :
        IF \E k \in 1..(i - 1) : Ends(ts[k])
        THEN xs[i].opt = "None" /\ xs[i].lexer = ts[i - 1].lexer
        ELSE IF ts[i].kind = "Ok" /\ ts[i].tok.typ = TEnd
        THEN xs[i].opt = "None" /\ xs[i].lexer = ts[i].lexer
        ELSE /\ xs[i].opt = (IF ts[i].kind = "Panic" THEN "Panic" ELSE "Some")
             /\ xs[i].kind = ts[i].kind
             /\ xs[i].tok = ts[i].tok
             /\ xs[i].err = ts[i].err
             /\ xs[i].lexer = ts[i].lexer

\* The items that are tokens or errors.
Yielded(xs) == {i \in 1..Len(xs) : xs[i].opt = "Some"}

\* C15: iterating a lexer yields the tokens next_token returns, in order; the
\* first End is not yielded, the first error is, and from then on next
\* returns None.  At most one item per character of the text is yielded, so
\* the sequence is finite.  The Iter of a clone yields the same items.
C15_IterationView ==
    /\ YieldsOf(results, NextTokens(Lexer_new(input), Len(results)))
    /\ YieldsOf(results_clone, NextTokens(Lexer_new(input), Len(results_clone)))
    /\ Cardinality(Yielded(results)) <= Len(input)
    /\ \A i \in Yielded(results) :
         \A j \in (i + 1)..Len(results) :
           results[i].kind = "Err" => results[j].opt = "None"
    /\ \A i \in 1..Len(results_clone) : results_clone[i] = results[i]

C15_Witness ==
    /\ input = Text_amp
    /\ Len(results_clone) = 4
    /\ results[1].opt = "Some" /\ results[1].kind = "Ok"
    /\ results[2].opt = "Some" /\ results[2].kind = "Err"
    /\ results[3].opt = "None"
    /\ results_clone[4].opt = "None"

----------------------------------------------------------------------------
(***************************************************************************)
(* The stacks.                                                             *)
(***************************************************************************)
\* ShuntingYard::parse is at its assertions: parse_e has returned Ok and the
\* lookahead is End, so that expect(End) succeeds.
AtAssertions == At("parse", "after_e") /\ ret.kind = "Ok" /\ next.typ = TEnd

\* C16: when parse_e and expect(End) have both succeeded at top level, the
\* expression stack holds exactly one tree and the operator stack exactly
\* the initial sentinel: neither assert_eq! of ShuntingYard::parse fails,
\* and parse returns the one tree.
C16_ResidualState ==
    /\ AtAssertions =>
         /\ Len(exp_stack) = 1
         /\ op_stack = << [op |-> SENTINEL, pos |-> 0] >>
         /\ expect(St, TEnd).ret.kind = "Ok"
    /\ result.kind = "Panic" => result.err.msg[1] \notin
         {"assertion failed: exp_stack.len() == 1",
          "assertion failed: op_stack.len() == 1"}
    /\ result.kind = "Ok" =>
         /\ Len(result.node) = 1
         /\ exp_stack = <<>>
         /\ op_stack = << [op |-> SENTINEL, pos |-> 0] >>

C16_Witness ==
    /\ AtAssertions
    /\ input = <<"(", "x", ")">>
    /\ exp_stack = << Parens(Ident(<<"x">>, 1), 0) >>

----------------------------------------------------------------------------
(***************************************************************************)
(* Prefix operators.                                                       *)
(***************************************************************************)
\* push_operator is reducing: it has called pop_operator for the operator on
\* top of the operator stack, while pushing an operator of type typ.
Reducing(typ) ==
    /\ At("pop_operator", "start")
    /\ Len(stack) > 1
    /\ stack[Len(stack) - 1].fn = "push_operator"
    /\ stack[Len(stack) - 1].op.typ = typ

\* C17: parse of "--x" returns PrefixOp(-, PrefixOp(-, x)) for a number or
\* identifier x, and the push of a prefix operator reduces no prefix
\* operator, whose operand has not been parsed yet.
C17_ChainedPrefix ==
    /\ (Done /\ input \in PrefixTexts) =>
         \A x \in Operands :
           input = <<"-", "-">> \o x => Returns(SPre("-", SPre("-", Leaf(x))))
    /\ Reducing("Prefix") => Last(op_stack).op.typ # "Prefix"

\* C18: for every binary operator op and operands a, b, parse of "a op -b"
\* returns BinaryOp(op, a, PrefixOp(-, b)), and the push of a prefix operator
\* reduces no binary operator, whose right operand has not been parsed yet.
C18_PrefixRightOperand ==
    /\ (Done /\ input \in PrefixTexts) =>
         \A a \in Operands, b \in Operands, op \in BinaryChars :
           input = a \o <<op, "-">> \o b
             => Returns(SBin(op, Leaf(a), SPre("-", Leaf(b))))
    /\ Reducing("Prefix") => Last(op_stack).op.typ # "Binary"

----------------------------------------------------------------------------
(***************************************************************************)
(* The order of the tokens.                                                *)
(***************************************************************************)
\* The token types of the items of an iteration, errors left out.
RECURSIVE Types(_)
Types(ts) ==
    IF ts = <<>> THEN <<>>
    ELSE (IF Head(ts).kind = "Ok" /\ Head(ts).tok.typ # TEnd
          THEN <<Head(ts).tok.typ>> ELSE <<>>) \o Types(Tail(ts))

\* The tokens of a text: what the lexer produces for it, up to its End.
TokensOf(text) == Types(NextTokens(Lexer_new(text), Len(text) + 1))

\* The in-order flattening of a tree, as token types.
RECURSIVE Flatten(_)
Flatten(t) ==
    CASE t.typ = "Number" -> <<TNumber(t.num)>>
      [] t.typ = "Ident" -> <<TIdent(t.name)>>
      [] t.typ = "Func" ->
           <<TIdent(t.name), TOpSingle("(")>> \o Flatten(t.args[1])
             \o <<TOpSingle(")")>>
      [] t.typ = "Binary" ->
           Flatten(t.args[1]) \o <<TOpSingle(t.ch)>> \o Flatten(t.args[2])
      [] t.typ = "Prefix" -> <<TOpSingle(t.ch)>> \o Flatten(t.args[1])
      [] t.typ = "Postfix" -> Flatten(t.args[1]) \o <<TOpSingle(t.ch)>>
      [] t.typ = "Parens" ->
           <<TOpSingle("(")>> \o Flatten(t.args[1]) \o <<TOpSingle(")")>>

\* The positions of the nodes of a tree.
RECURSIVE PositionsOf(_)
PositionsOf(t) ==
    {t.pos} \cup UNION {PositionsOf(t.args[k]) : k \in 1..Len(t.args)}

\* Every BinaryOp of the tree has its left subtree made of tokens before the
\* operator and its right subtree of tokens after it.
RECURSIVE Ordered(_)
Ordered(t) ==
    /\ t.typ = "Binary" =>
         /\ \A p \in PositionsOf(t.args[1]) : p < t.pos
         /\ \A p \in PositionsOf(t.args[2]) : p > t.pos
    /\ \A k \in 1..Len(t.args) : Ordered(t.args[k])

\* C19: when parse returns a tree, the in-order flattening of the tree is
\* the sequence of tokens the lexer produces for the input; every BinaryOp
\* has the tokens of its left subtree before its operator and those of its
\* right subtree after it.
C19_TokenOrder ==
    result.kind = "Ok" =>
        /\ Flatten(result.node[1]) = TokensOf(input)
        /\ Ordered(result.node[1])

----------------------------------------------------------------------------
(***************************************************************************)
(* Parenthesis scopes.  Last(scopes) is the height the expression stack    *)
(* had when the sentinel nearest to the top of op_stack was pushed.        *)
(***************************************************************************)
\* parse_parens is about to pop its sentinel: parse_e returned Ok and the
\* lookahead is ")".
AtScopeEnd ==
    At("parse_parens", "after_e") /\ ret.kind = "Ok" /\ next.typ = TOpSingle(")")

\* The position of the sentinel nearest to the top of the operator stack.
ScopePos ==
    op_stack[CHOOSE i \in 1..Len(op_stack) :
                /\ op_stack[i].op.typ = "Sentinel"
                /\ \A j \in (i + 1)..Len(op_stack) : op_stack[j].op.typ # "Sentinel"].pos

\* C20: between the push of a parenthesis sentinel and its pop, a reduction
\* pops no entry of the expression stack pushed before the sentinel and no
\* operator below it; the tree handed back for "( E )" is made of tokens
\* after the "(" only, and when parse_parens pops the sentinel the
\* expression stack is exactly one entry higher than at its push.
C20_ScopeIsolation ==
    [][/\ At("pop_operator", "start") =>
            /\ Last(op_stack).op.typ # "Sentinel"
            /\ result'.kind = "None" =>
                 /\ Len(exp_stack') > Last(scopes)
                 /\ SubSeq(exp_stack', 1, Last(scopes))
                      = SubSeq(exp_stack, 1, Last(scopes))
       /\ AtScopeEnd =>
            /\ Len(exp_stack) = Last(scopes) + 1
            /\ \A p \in PositionsOf(Last(exp_stack)) : p > ScopePos
            /\ SubSeq(exp_stack', 1, Last(scopes))
                 = SubSeq(exp_stack, 1, Last(scopes))]_vars

----------------------------------------------------------------------------
(***************************************************************************)
(* Internal failures.                                                      *)
(***************************************************************************)
\* The panic of the lexer's whitespace loop: no token is delivered.
LexerPanicked ==
    result.kind = "Panic" /\ result.err.msg = LexPanic(lexer).err.msg

\* The operands pop_operator takes for the operator on top of op_stack.
OperandsOf(op) == IF op.typ = "Binary" THEN 2 ELSE 1

\* C21: for every token sequence the lexer delivers, parse returns Ok or
\* Err.  While the parser runs the operator stack is not empty and has a
\* sentinel at its bottom; pop_operator is never called with a sentinel on
\* top, and when it runs the expression stack holds one operand for a prefix
\* or postfix operator and two for a binary one; parse_parens is called on a
\* "(" only.  So no unwrap or panic of pop_operator, top_operator or
\* parse_parens is reached.
C21_NoInternalFailure ==
    /\ result.kind = "Panic" => LexerPanicked
    /\ stack # <<>> =>
         /\ op_stack # <<>>
         /\ op_stack[1].op.typ = "Sentinel"
    /\ At("pop_operator", "start") =>
         /\ Last(op_stack).op.typ # "Sentinel"
         /\ Len(exp_stack) >= OperandsOf(Last(op_stack).op)
    /\ At("parse_parens", "start") => match_starting_parens(St)
    /\ AtScopeEnd => (Len(op_stack) > 1 /\ exp_stack # <<>>)

====
